---- MODULE Spec2Model ----
(***************************************************************************)
(* Model of src/mustgather.rs: locating the root of a must-gather archive  *)
(* (find_must_gather_root), resolving manifest paths (build_manifest_path) *)
(* and building the archive summary (MustGather::from, get_cluster_version,*)
(* get_nodes).                                                             *)
(*                                                                         *)
(* A string is the sequence of its tokens: the separator "/", the dot "."  *)
(* and the runs of other characters between them ("version.yaml" is        *)
(* <<"version", ".", "yaml">>), so that the separator and dot handling of  *)
(* std::path is modelled by what it does.                                  *)
(***************************************************************************)
EXTENDS Naturals, Sequences, FiniteSets

VARIABLES
    fs,            \* the directory tree on disk: true path -> entry
    start,         \* the path string handed to the program
    pc,            \* position of the program
    stack,         \* `path` of the find_must_gather_root call under way,
                   \* after that of the call that made it (the frames
                   \* further out are not read again)
    depth,         \* number of recursive calls under way
    run,           \* 1: first search, 2: search repeated on its own output
    first,         \* result of the first search, kept for the second
    root,          \* Ok value of find_must_gather_root
    outcome,       \* "running", "ok", "err" (anyhow error) or "panic"
    title,         \* MustGather.title
    version,       \* MustGather.version
    nodes,         \* MustGather.nodes: the manifest each Node was decoded from
    loc,           \* arguments of a build_manifest_path call
    manifestpath   \* value returned by that call

vars == <<fs, start, pc, stack, depth, run, first, root, outcome, title, version,
          nodes, loc, manifestpath>>

(***************************************************************************)
(* Bounds of the model.                                                    *)
(***************************************************************************)
MaxLen == 2          \* longest locator field of a build_manifest_path call
MaxEntries == 3      \* entries below "/" in the trees the Root Finder sees
MaxNodeFiles == 2    \* entries in the nodes collection directory
MaxLinkDepth == 2    \* directories from "/" down to a symbolic link, at most
MaxThrough == 2      \* times a link target runs through another link

(***************************************************************************)
(* String literals of the source.                                          *)
(***************************************************************************)
VERSION == <<"version">>
NAMESPACES == <<"namespaces">>
CLUSTER_SCOPED_RESOURCES == <<"cluster-scoped-resources">>
DOT_YAML == <<".", "yaml">>
YAML == <<"yaml">>
VERSION_YAML == <<"version", ".", "yaml">>
CLUSTERVERSIONS == <<"clusterversions">>
CONFIG_OPENSHIFT_IO == <<"config", ".", "openshift", ".", "io">>
NODES == <<"nodes">>
CORE == <<"core">>
UNKNOWN == "Unknown"
CANNOT_DETERMINE == "Cannot determine root of must-gather"

(***************************************************************************)
(* std::path on Unix, as far as the source uses it.                        *)
(***************************************************************************)
SEP == <<"/">>
DOT == <<".">>
DOTDOT == <<".", ".">>

\* A file name that is not valid UTF-8 (the byte 0xFF), and OsStr::to_str /
\* Path::to_str as Option: None for a path with such a name in it.
NON_UTF8 == "<0xFF>"
to_str(p) ==
    IF \E i \in 1..Len(p) : p[i] = NON_UTF8 THEN [some |-> FALSE, str |-> <<>>]
    ELSE [some |-> TRUE, str |-> p]

is_absolute(p) == Len(p) > 0 /\ p[1] = "/"

\* PathBuf::push: an absolute argument replaces the buffer; otherwise a
\* separator is added unless the buffer is empty or already ends in one.
push(self, p) ==
    IF is_absolute(p) THEN p
    ELSE IF Len(self) > 0 /\ self[Len(self)] # "/" THEN self \o SEP \o p
    ELSE self \o p

\* The pieces of a string between its separators, empty pieces included:
\* from one separator (or the start) to the next (or the end).  (Here and
\* below a value is bound through a one-element set where it is used
\* several times, so that it is computed once.)
IsSeparator(t) == t = "/"

SeparatorsOf(s) ==
    SelectSeq([i \in 1..Len(s) |-> IF IsSeparator(s[i]) THEN i ELSE 0], LAMBDA i : i > 0)

Segments(s) ==
    CHOOSE r \in UNION {
        {[k \in 1..(Len(cuts) - 1) |-> SubSeq(v, cuts[k] + 1, cuts[k + 1] - 1)] :
            cuts \in {<<0>> \o SeparatorsOf(v) \o <<Len(v) + 1>>}} :
        v \in {s}} : TRUE

\* A piece that is a component wherever it stands: not empty and not ".".
IsNormal(x) == x # <<>> /\ x # DOT

\* Path::components: the root (written SEP), then the segments; repeated and
\* trailing separators vanish, and so does "." except at the very start.
\* Two paths are equal (PathBuf's ==) when their components are.
Components(p) ==
    CHOOSE r \in
        {(IF is_absolute(p) THEN <<SEP>> ELSE <<>>)
            \o (IF Head(segs) = DOT THEN <<DOT>> ELSE <<>>)
            \o SelectSeq(segs, IsNormal) :
            segs \in {Segments(p)}} : TRUE

\* Position of the last dot of a file name, 0 when it has none.
LastDot(n) ==
    LET dots == {i \in 1..Len(n) : n[i] = "."}
    IN IF dots = {} THEN 0 ELSE CHOOSE i \in dots : \A j \in dots : j <= i

\* The last component of a path, <<>> when it has none.
LastComponent(p) ==
    CHOOSE r \in {IF cs = <<>> THEN <<>> ELSE cs[Len(cs)] : cs \in {Components(p)}} : TRUE

\* Path::file_name as Option: the last component when it is a normal one.
file_name(p) ==
    CHOOSE r \in
        {IF n \in {<<>>, SEP, DOT, DOTDOT}
         THEN [some |-> FALSE, name |-> <<>>]
         ELSE [some |-> TRUE, name |-> n] : n \in {LastComponent(p)}} : TRUE

\* Path::extension as Option: None for no file name, for a name without a
\* dot and for a name whose only dot is its first character.
extension(p) ==
    CHOOSE r \in
        {IF ~fn.some \/ LastDot(fn.name) <= 1
         THEN [some |-> FALSE, ext |-> <<>>]
         ELSE [some |-> TRUE,
               ext |-> SubSeq(fn.name, LastDot(fn.name) + 1, Len(fn.name))] :
            fn \in {file_name(p)}} : TRUE

(***************************************************************************)
(* build_manifest_path                                                     *)
(***************************************************************************)
\* Leaves the namespace branch out: every resource lands in the cluster branch.
build_manifest_path_noNamespace(path, name, namespace, kind, group) ==
    LET scoped == push(path, CLUSTER_SCOPED_RESOURCES)
        grouped == IF group # <<>> THEN push(scoped, group) ELSE scoped
        kinded == push(grouped, kind)
    IN IF name # <<>> THEN push(kinded, name \o DOT_YAML) ELSE kinded

build_manifest_path(path, name, namespace, kind, group) ==
    LET scoped == IF namespace = <<>>
                  THEN push(path, CLUSTER_SCOPED_RESOURCES)
                  ELSE push(push(path, NAMESPACES), namespace)
        grouped == IF group # <<>> THEN push(scoped, group) ELSE scoped
        kinded == push(grouped, kind)
    IN IF name # <<>> THEN push(kinded, name \o DOT_YAML) ELSE kinded

(***************************************************************************)
(* The file system.  fs maps the true path of every entry (the sequence of *)
(* names from "/", <<>> for "/" itself) to what is there:                  *)
(*   kind "dir"    a directory,                                            *)
(*        "nolist" a directory without read permission (it can be          *)
(*                 traversed, it cannot be listed),                        *)
(*        "file"   a regular file with the given content,                  *)
(*        "link"   a symbolic link that holds the path string `target`.    *)
(* The working directory of the process is "/".                            *)
(***************************************************************************)
DirKinds == {"dir", "nolist"}
NoDoc == [yaml |-> FALSE, type |-> "absent", text |-> ""]
Dir == [kind |-> "dir", target |-> <<>>, content |-> NoDoc]
NoList == [kind |-> "nolist", target |-> <<>>, content |-> NoDoc]
File(c) == [kind |-> "file", target |-> <<>>, content |-> c]
Link(t) == [kind |-> "link", target |-> t, content |-> NoDoc]

Cwd == <<>>
Parent(q) == IF q = <<>> THEN <<>> ELSE SubSeq(q, 1, Len(q) - 1)
Children(f, q) == {c \in DOMAIN f : Len(c) = Len(q) + 1 /\ Parent(c) = q}

Found(q) == [ok |-> TRUE, at |-> q]
NotFound == [ok |-> FALSE, at |-> <<>>]

\* The symbolic links one path resolution follows at most; the next one
\* fails it (ELOOP, io::ErrorKind::FilesystemLoop).
MAXSYMLINKS == 40

\* A resolution under way: the entry reached and the links followed so far.
Reached(q, n) == [ok |-> TRUE, at |-> q, links |-> n]
Lost == [ok |-> FALSE, at |-> <<>>, links |-> 0]

\* The last piece of the first i tokens that is not empty is ".".
RECURSIVE ends_in_dot(_, _)
ends_in_dot(p, i) ==
    IF i = 0 THEN FALSE
    ELSE IF p[i] = "/" THEN ends_in_dot(p, i - 1)
    ELSE p[i] = "." /\ (i = 1 \/ p[i - 1] = "/")

\* A path string that ends in a separator or in a piece "." names
\* directories only: the lookup of what follows the last name needs one.
names_directory_only(p) ==
    p # <<>> /\ (p[Len(p)] = "/" \/ ends_in_dot(p, Len(p)))

\* The components a resolution looks up for a path string: a last "."
\* stands for the directory that such a path has to end in.
Lookups(p) ==
    Components(p) \o (IF names_directory_only(p) THEN <<DOT>> ELSE <<>>)

\* A resolution with the components it has still to look up.
Pending(here, rest) ==
    [ok |-> here.ok, at |-> here.at, links |-> here.links, rest |-> rest]
Failed == [ok |-> FALSE, at |-> <<>>, links |-> 0, rest |-> <<>>]

\* The entry a component names from the entry `here`, a link not followed:
\* none when it is missing or when `here` is not a directory.
Entry(f, here, c) ==
    IF c = SEP THEN Reached(<<>>, here.links)
    ELSE IF f[here.at].kind \notin DirKinds THEN Lost
    ELSE IF c = DOT THEN Reached(here.at, here.links)
    ELSE IF c = DOTDOT THEN Reached(Parent(here.at), here.links)
    ELSE IF Append(here.at, c) \notin DOMAIN f THEN Lost
    ELSE Reached(Append(here.at, c), here.links)

\* The lookup of the next component.  A symbolic link puts the components
\* of the path it holds before the ones still to come, looked up from the
\* root or from the directory the link is in; it fails the resolution when
\* it is one link too many or holds the empty path.
Step(f, s) ==
    CHOOSE r \in
        {IF ~e.ok THEN Failed
         ELSE IF f[e.at].kind # "link" THEN Pending(e, Tail(s.rest))
         ELSE IF s.links >= MAXSYMLINKS \/ f[e.at].target = <<>> THEN Failed
         ELSE Pending(Reached(s.at, s.links + 1),
                      Lookups(f[e.at].target) \o Tail(s.rest)) :
            e \in {Entry(f, s, Head(s.rest))}} : TRUE

\* At most 2^k lookups, and lookups until none is left.
RECURSIVE Steps(_, _, _)
Steps(f, s, k) ==
    IF ~s.ok \/ s.rest = <<>> THEN s
    ELSE IF k = 0 THEN Step(f, s)
    ELSE CHOOSE r \in {Steps(f, mid, k - 1) : mid \in {Steps(f, s, k - 1)}} : TRUE

RECURSIVE AllSteps(_, _, _)
AllSteps(f, s, k) ==
    IF ~s.ok \/ s.rest = <<>> THEN s
    ELSE CHOOSE r \in {AllSteps(f, mid, k + 1) : mid \in {Steps(f, s, k)}} : TRUE

\* Where the link with true path q leads, and the links followed to get
\* there, q included, when no link was followed before it.
LinkEnd(f, q) ==
    CHOOSE r \in {IF s.ok THEN Reached(s.at, s.links) ELSE Lost :
                     s \in {AllSteps(f, Pending(Reached(Parent(q), 0),
                                                <<q[Len(q)]>>), 0)}} : TRUE

LinksOf(f) == {q \in DOMAIN f : f[q].kind = "link"}
LinkEnds(f) == {[link |-> q, end |-> LinkEnd(f, q)] : q \in LinksOf(f)}

\* One component of a path resolution (stat), from the entry `here`.  A
\* link leads where it leads without links before it, unless the links
\* before it and the ones it stands for are more than one resolution
\* follows.
WalkStep(f, ends, here, c) ==
    IF ~here.ok THEN here
    ELSE IF \A e \in ends : e.link # Append(here.at, c) THEN Entry(f, here, c)
    ELSE LET end == (CHOOSE e \in ends : e.link = Append(here.at, c)).end
         IN IF ~end.ok \/ here.links + end.links > MAXSYMLINKS THEN Lost
            ELSE Reached(end.at, here.links + end.links)

\* The entry reached from `here` by the components lo..hi, one half after
\* the other.
RECURSIVE WalkFrom(_, _, _, _, _, _)
WalkFrom(f, ends, here, comps, lo, hi) ==
    IF lo > hi THEN here
    ELSE IF lo = hi THEN WalkStep(f, ends, here, comps[lo])
    ELSE IF lo + 1 = hi
    THEN CHOOSE r \in {WalkStep(f, ends, mid, comps[hi]) :
                          mid \in {WalkStep(f, ends, here, comps[lo])}} : TRUE
    ELSE CHOOSE r \in UNION {
            {WalkFrom(f, ends, mid, comps, m + 1, hi) :
                mid \in {WalkFrom(f, ends, here, comps, lo, m)}} :
            m \in {(lo + hi) \div 2}} : TRUE

\* The entry reached from `here` by a sequence of components.
WalkNames(f, ends, here, names) ==
    CHOOSE r \in {WalkFrom(f, ends, from, comps, 1, Len(comps)) :
                     from \in {here}, comps \in {names}} : TRUE

\* The entry reached from `here` by a path string: the empty path names
\* nothing.
WalkPath(f, ends, here, p) ==
    CHOOSE r \in {IF q = <<>> THEN Lost ELSE WalkNames(f, ends, here, Lookups(q)) :
                     q \in {p}} : TRUE

\* The resolution of a path string from the working directory.
Walk(f, p) ==
    CHOOSE r \in {WalkPath(f, ends, Reached(Cwd, 0), p) : ends \in {LinkEnds(f)}} : TRUE

\* Path resolution (stat) of a path string.
Resolve(f, p) ==
    CHOOSE r \in {IF w.ok THEN Found(w.at) ELSE NotFound : w \in {Walk(f, p)}} : TRUE

is_file(f, p) == \E r \in {Resolve(f, p)} : r.ok /\ f[r.at].kind = "file"
is_dir(f, p) == \E r \in {Resolve(f, p)} : r.ok /\ f[r.at].kind \in DirKinds

\* The absolute path string of a true path.
RECURSIVE Joined(_, _)
Joined(q, i) == IF i = 0 THEN <<>> ELSE Joined(q, i - 1) \o SEP \o q[i]
AbsPath(q) == IF q = <<>> THEN SEP ELSE Joined(q, Len(q))

\* fs::canonicalize as Result: the absolute path with every link resolved.
canonicalize(f, p) ==
    CHOOSE c \in {[ok |-> r.ok, path |-> AbsPath(r.at)] : r \in {Resolve(f, p)}} : TRUE

\* Takes a listing that fails for an empty one.
read_dir_lenient(f, p) ==
    CHOOSE l \in
        {[ok |-> TRUE,
          paths |-> IF r.ok /\ f[r.at].kind = "dir"
                    THEN {push(p, c[Len(c)]) : c \in Children(f, r.at)} ELSE {}] :
            r \in {Resolve(f, p)}} : TRUE

\* fs::read_dir as Result; each entry's path() is the listed path joined
\* with the entry's name.
read_dir(f, p) ==
    CHOOSE l \in
        {IF r.ok /\ f[r.at].kind = "dir"
         THEN [ok |-> TRUE,
               paths |-> {push(p, c[Len(c)]) : c \in Children(f, r.at)}]
         ELSE [ok |-> FALSE, paths |-> {}] :
            r \in {Resolve(f, p)}} : TRUE

(***************************************************************************)
(* find_must_gather_root, one recursive call per step.                     *)
(***************************************************************************)
\* [path, "version"].iter().collect(): the pieces pushed onto an empty PathBuf.
vpath(path) == push(push(<<>>, path), VERSION)
npath(path) == push(push(<<>>, path), NAMESPACES)
csrpath(path) == push(push(<<>>, path), CLUSTER_SCOPED_RESOURCES)

\* The test of line 94 with `||` between the two directories.
is_root_eitherDir(f, path) ==
    \/ is_file(f, vpath(path))
    \/ is_dir(f, npath(path))
    \/ is_dir(f, csrpath(path))

\* The test of line 94.
is_root(f, path) ==
    \/ is_file(f, vpath(path))
    \/ (is_dir(f, npath(path)) /\ is_dir(f, csrpath(path)))

\* Returns the path of the version file instead of the directory.
found_root_vpath(f, path) == canonicalize(f, vpath(path))

\* Line 95: orig.canonicalize(), a Result that the code unwraps.
found_root(f, path) == canonicalize(f, path)

\* Lines 98-104: the entries of the listing that are directories.
directories(f, listing) == {d \in listing.paths : is_dir(f, d)}

\* Descends into some subdirectory whenever there is one.
single_child_any(dirs) == dirs # {}

\* Line 106: directories.len() == 1.
single_child(dirs) == Cardinality(dirs) = 1

\* Recurses on its own argument instead of the subdirectory.
recursion_path_same(dirs, path) == path

\* Line 107: directories[0], the one subdirectory.
recursion_path(dirs, path) == CHOOSE d \in dirs : TRUE

\* One call of find_must_gather_root on `path`: what it does, and the path
\* it returns (line 95) or passes to the recursive call (line 107).
find_must_gather_root(f, path) ==
    IF is_root(f, path)
    THEN CHOOSE c \in
            {IF r.ok THEN [does |-> "return", path |-> r.path]
             ELSE [does |-> "panic", path |-> <<>>] :
                r \in {found_root(f, path)}} : TRUE
    ELSE CHOOSE c \in UNION {
            {IF ~listing.ok THEN [does |-> "panic", path |-> <<>>]
             ELSE IF ~single_child(dirs) THEN [does |-> "error", path |-> <<>>]
             ELSE IF ~to_str(recursion_path(dirs, path)).some
             THEN [does |-> "panic", path |-> <<>>]
             ELSE [does |-> "recurse",
                   path |-> to_str(recursion_path(dirs, path)).str] :
                dirs \in {directories(f, listing)}} :
            listing \in {read_dir(f, path)}} : TRUE

Top == stack[Len(stack)]

\* Line 95: the directory of this call is the root.
FindReturn(call) ==
    /\ call.does = "return"
    /\ root' = call.path
    /\ outcome' = "ok"
    /\ pc' = "found"
    /\ UNCHANGED <<fs, start, stack, depth, run, first, title, version, nodes, loc,
                   manifestpath>>

\* Line 99: read_dir(orig).unwrap() on a path that cannot be listed; line
\* 95: canonicalize().unwrap() on the empty path; line 107:
\* to_str().unwrap() on a subdirectory whose name is not UTF-8.
FindPanic(call) ==
    /\ call.does = "panic"
    /\ outcome' = "panic"
    /\ pc' = "stopped"
    /\ UNCHANGED <<fs, start, stack, depth, run, first, root, title, version, nodes,
                   loc, manifestpath>>

\* Line 107: the recursive call on the only subdirectory.
FindDescend(call) ==
    /\ call.does = "recurse"
    /\ stack' = <<Top, call.path>>
    /\ depth' = depth + 1
    /\ UNCHANGED <<fs, start, pc, run, first, root, outcome, title, version,
                   nodes, loc, manifestpath>>

\* Line 109: Err("Cannot determine root of must-gather").
FindFail(call) ==
    /\ call.does = "error"
    /\ outcome' = "err"
    /\ pc' = "stopped"
    /\ UNCHANGED <<fs, start, stack, depth, run, first, root, title, version, nodes,
                   loc, manifestpath>>

FindCall ==
    /\ pc = "find"
    /\ \E call \in {find_must_gather_root(fs, Top)} :
          \/ FindReturn(call)
          \/ FindPanic(call)
          \/ FindDescend(call)
          \/ FindFail(call)

\* The search run again on the path it returned, as a String.
FindAgain ==
    /\ pc = "found"
    /\ run = 1
    /\ to_str(root).some
    /\ run' = 2
    /\ first' = root
    /\ stack' = <<to_str(root).str>>
    /\ depth' = 0
    /\ outcome' = "running"
    /\ pc' = "find"
    /\ UNCHANGED <<fs, start, root, title, version, nodes, loc, manifestpath>>

(***************************************************************************)
(* The trees the Root Finder is run on: every tree of at most MaxEntries   *)
(* entries below "/".  An entry with a marker name is a file or a          *)
(* directory; an entry named "a" is a file, a directory, a directory that  *)
(* cannot be listed, or a link to any entry of the tree (an ancestor       *)
(* included, which makes a loop, and a link included, itself too), by its  *)
(* absolute path or by a path that runs through a link several times       *)
(* first; an entry whose name is not UTF-8 is a directory.  A tree is      *)
(* built entry by entry in one fixed order of the paths, so that it is     *)
(* built once; the links get their targets when the tree is complete.  The *)
(* search starts at "/", at a missing path, at the relative path of an     *)
(* entry, or at a path that runs through a link several times.             *)
(***************************************************************************)
Garbage == [yaml |-> FALSE, type |-> "absent", text |-> ""]
PLAIN == <<"a">>
BAD == <<NON_UTF8>>
EntryNames == {VERSION, NAMESPACES, CLUSTER_SCOPED_RESOURCES, PLAIN, BAD}
RootOnly == [q \in {<<>>} |-> Dir]

NameOrder(n) ==
    CASE n = VERSION -> 1
      [] n = NAMESPACES -> 2
      [] n = CLUSTER_SCOPED_RESOURCES -> 3
      [] n = PLAIN -> 4
      [] n = BAD -> 5

RECURSIVE PathBefore(_, _)
PathBefore(p, q) ==
    IF Len(p) # Len(q) THEN Len(p) < Len(q)
    ELSE IF p = <<>> THEN FALSE
    ELSE IF Head(p) # Head(q) THEN NameOrder(Head(p)) < NameOrder(Head(q))
    ELSE PathBefore(Tail(p), Tail(q))

With(f, q, e) == [x \in DOMAIN f \cup {q} |-> IF x = q THEN e ELSE f[x]]

EntriesNamed(n) ==
    IF n = PLAIN THEN {Dir, NoList, File(Garbage), Link(SEP)}
    ELSE IF n = BAD THEN {Dir}
    ELSE {Dir, File(Garbage)}

LastPath(f) == CHOOSE q \in DOMAIN f : \A x \in DOMAIN f : x = q \/ PathBefore(x, q)

Grown(f) ==
    LET last == LastPath(f)
    IN UNION {UNION {{With(f, Append(d, n), e) :
                          e \in {x \in EntriesNamed(n) :
                                    x.kind = "link" => Len(d) < MaxLinkDepth}} :
                     n \in {m \in EntryNames : PathBefore(last, Append(d, m))}} :
              d \in {x \in DOMAIN f : f[x].kind \in DirKinds}}

RECURSIVE TreesOf(_)
TreesOf(k) ==
    IF k = 0 THEN {RootOnly} ELSE UNION {Grown(f) : f \in TreesOf(k - 1)}

Trees == UNION {TreesOf(k) : k \in 0..MaxEntries}

\* The links directly below "/", and a path that runs through one of them
\* `times` times before it goes on along q.
TopLinks(f) == {l \in LinksOf(f) : Len(l) = 1}

RECURSIVE Through(_, _, _)
Through(l, times, q) == IF times = 0 THEN q ELSE l \o Through(l, times - 1, q)

\* The targets the link q may have: the absolute path of an entry, or such
\* a path led MaxThrough times through another link, one below "/", first.
Targets(f, q) ==
    {AbsPath(x) : x \in DOMAIN f}
        \cup {AbsPath(Through(l, MaxThrough, x)) :
                 l \in TopLinks(f) \ {q}, x \in DOMAIN f}

Targeted(f) ==
    {t \in [LinksOf(f) -> UNION {Targets(f, q) : q \in LinksOf(f)}] :
        \A q \in LinksOf(f) : t[q] \in Targets(f, q)}

Linked(f, t) ==
    [q \in DOMAIN f |-> IF q \in DOMAIN t THEN Link(t[q]) ELSE f[q]]

RelPath(q) == Tail(AbsPath(q))
Missing == <<"/", "z">>
Starts(f) ==
    {p \in {RelPath(q) : q \in DOMAIN f} : to_str(p).some}
        \cup {RelPath(Through(l, MaxThrough + 1, <<>>)) : l \in TopLinks(f)}
        \cup {SEP, Missing}

NoLoc == [path |-> <<>>, name |-> <<>>, namespace |-> <<>>, kind |-> <<>>,
          group |-> <<>>]

Idle ==
    /\ title = <<>> /\ version = "" /\ nodes = <<>>
    /\ loc = NoLoc /\ manifestpath = <<>>

InitRoot ==
    /\ \E tree \in Trees :
          \E t \in Targeted(tree) :
             fs = Linked(tree, t)
    /\ start \in Starts(fs)
    /\ pc = "find"
    /\ stack = <<start>>
    /\ depth = 0
    /\ run = 1
    /\ first = <<>>
    /\ root = <<>>
    /\ outcome = "running"
    /\ Idle

NextRoot == FindCall \/ FindAgain

SpecRoot == InitRoot /\ [][NextRoot]_vars

FairSpecRoot == SpecRoot /\ WF_vars(NextRoot)

(***************************************************************************)
(* What the claims speak of, read off the tree itself.                     *)
(***************************************************************************)
\* What a path resolution that has come to `here` sees under the name n
\* (`ends` is LinkEnds(f), worked out once by the definition that asks).
SeesDir(f, ends, here, n) ==
    \E w \in {WalkStep(f, ends, here, n)} : w.ok /\ f[w.at].kind \in DirKinds
SeesFile(f, ends, here, n) ==
    \E w \in {WalkStep(f, ends, here, n)} : w.ok /\ f[w.at].kind = "file"

\* The root invariant, as seen from `here`.
MarkersFrom(f, ends, here) ==
    \/ SeesFile(f, ends, here, VERSION)
    \/ /\ SeesDir(f, ends, here, NAMESPACES)
       /\ SeesDir(f, ends, here, CLUSTER_SCOPED_RESOURCES)

\* The entries of the directory at `here` that are seen as directories.
SubdirsFrom(f, ends, here) ==
    {c \in Children(f, here.at) : SeesDir(f, ends, here, c[Len(c)])}

\* The entry that the entry with true path q stands for, links followed.
EndOf(f, ends, q) == WalkStep(f, ends, Reached(Parent(q), 0), q[Len(q)]).at

\* The same of the directory with true path d, looked at directly.
HasMarkers(f, d) == \E ends \in {LinkEnds(f)} : MarkersFrom(f, ends, Reached(d, 0))
SubdirEntries(f, d) ==
    CHOOSE S \in {SubdirsFrom(f, ends, Reached(d, 0)) : ends \in {LinkEnds(f)}} : TRUE
Deref(f, q) == CHOOSE r \in {EndOf(f, ends, q) : ends \in {LinkEnds(f)}} : TRUE

\* The directory a path string names, when it names one.
NamesDir(f, p) == is_dir(f, p)
DirOf(f, p) == Resolve(f, p).at

\* A directory the search can neither accept nor leave: listable, without
\* the markers, and with no or several subdirectories, as the path shows
\* them (beyond the link limit it shows none).
Ambiguous(f, p) ==
    \E ends \in {LinkEnds(f)} :
        \E w \in {WalkPath(f, ends, Reached(Cwd, 0), p)} :
            /\ w.ok
            /\ f[w.at].kind = "dir"
            /\ ~MarkersFrom(f, ends, w)
            /\ Cardinality(SubdirsFrom(f, ends, w)) # 1

\* A path that cannot be listed: missing, not a directory, or not readable.
Unreadable(f, p) == \E r \in {Resolve(f, p)} : ~r.ok \/ f[r.at].kind # "dir"

\* A path that names a directory with the markers.
NamesRoot(f, p) ==
    \E ends \in {LinkEnds(f)} :
        \E w \in {WalkPath(f, ends, Reached(Cwd, 0), p)} :
            w.ok /\ f[w.at].kind \in DirKinds /\ MarkersFrom(f, ends, w)

\* The end of the chain of only-subdirectories from d, followed for at most
\* `fuel` levels: the first directory on it with the markers.
RECURSIVE ChainEndFrom(_, _, _, _)
ChainEndFrom(f, ends, d, fuel) ==
    IF MarkersFrom(f, ends, Reached(d, 0)) THEN Found(d)
    ELSE IF \/ fuel = 0
            \/ f[d].kind # "dir"
            \/ Cardinality(SubdirsFrom(f, ends, Reached(d, 0))) # 1
    THEN NotFound
    ELSE ChainEndFrom(f, ends,
                      EndOf(f, ends, CHOOSE c \in SubdirsFrom(f, ends, Reached(d, 0)) : TRUE),
                      fuel - 1)

ChainEnd(f, d, fuel) ==
    CHOOSE r \in {ChainEndFrom(f, ends, d, fuel) : ends \in {LinkEnds(f)}} : TRUE

\* Directories one level below d, links followed.
Subdirs(f, ends, d) == {EndOf(f, ends, c) : c \in SubdirsFrom(f, ends, Reached(d, 0))}

RECURSIVE Below(_, _, _, _)
Below(f, ends, ds, n) ==
    IF n = 0 THEN ds
    ELSE Below(f, ends, ds \cup UNION {Subdirs(f, ends, d) : d \in ds}, n - 1)

\* No directory is below itself: the tree has no loop of links.
LoopFree(f) ==
    \E ends \in {LinkEnds(f)} :
        \A d \in {x \in DOMAIN f : f[x].kind \in DirKinds} :
            d \notin Below(f, ends, Subdirs(f, ends, d), Cardinality(DOMAIN f))

\* Nesting depth of the directories below d in a loop-free tree.
RECURSIVE DepthFrom(_, _, _)
DepthFrom(f, ends, d) ==
    IF Subdirs(f, ends, d) = {} THEN 0
    ELSE LET deepest == CHOOSE x \in Subdirs(f, ends, d) :
                            \A y \in Subdirs(f, ends, d) :
                                DepthFrom(f, ends, y) <= DepthFrom(f, ends, x)
         IN 1 + DepthFrom(f, ends, deepest)

Depth(f, d) == CHOOSE n \in {DepthFrom(f, ends, d) : ends \in {LinkEnds(f)}} : TRUE

Descents == depth

\* The call under way and the call that made it.  Every earlier call of a
\* search was one of these two in an earlier state: what holds of these
\* two in every state holds of every call.
LastCalls == 1..Len(stack)
Finished == pc # "find"

(***************************************************************************)
(* Claims about the Root Finder, checked under SpecRoot.                   *)
(***************************************************************************)

\* C2: the Root Finder is idempotent: run again on the path it returned, it
\* returns that same path, without descending and without an error.
C2_Idempotent ==
    (run = 2 /\ Finished) =>
        (outcome = "ok" /\ root = first /\ Descents = 0)

\* C2 witness: the second search has returned, after a first search that
\* descended and was given another path than the one it returned.
C2_Witness ==
    run = 2 /\ pc = "found" /\ start # first /\ Len(Components(first)) >= 3

\* C3 as stated: when the start directory lacks the markers and the chain
\* of only-subdirectories below it (other entries ignored) ends in a
\* directory with the markers, whatever the directories are named, the
\* search returns that directory, canonicalized.
C3_Unwraps ==
    (/\ run = 1 /\ Finished
     /\ NamesDir(fs, start)
     /\ ~HasMarkers(fs, DirOf(fs, start))
     /\ ChainEnd(fs, DirOf(fs, start), Cardinality(DOMAIN fs)).ok)
    => (/\ outcome = "ok"
        /\ root = AbsPath(ChainEnd(fs, DirOf(fs, start), Cardinality(DOMAIN fs)).at))

\* C4: a listable directory without the markers and with no or several
\* subdirectories is never descended from, and the search that reaches it
\* ends with the "cannot determine" error and no path.
C4_RefusesToGuess ==
    \A i \in LastCalls :
        Ambiguous(fs, stack[i]) =>
            /\ i = Len(stack)
            /\ outcome \in {"running", "err"}
            /\ Finished => (outcome = "err" /\ root = <<>>)

\* C4 witness: the error, in a directory with several subdirectories of
\* which one has the markers.
C4_Witness ==
    /\ outcome = "err"
    /\ Cardinality(SubdirEntries(fs, DirOf(fs, Top))) >= 2
    /\ \E c \in SubdirEntries(fs, DirOf(fs, Top)) : HasMarkers(fs, Deref(fs, c))

\* C8 as stated: a path that cannot be listed, at the start or further
\* down, ends the search with the fatal error (the panic), never with the
\* "cannot determine" error or a root.
C8_UnreadableIsFatal ==
    \A i \in LastCalls :
        (run = 1 /\ Unreadable(fs, stack[i])) =>
            /\ i = Len(stack)
            /\ Finished => outcome = "panic"

\* C8 amended: a path that cannot be listed and does not satisfy the root
\* invariant ends the search with the fatal error (the panic), never with
\* the "cannot determine" error or a root; at the start or further down.
C8_UnreadableNonRootIsFatal ==
    \A i \in LastCalls :
        (/\ run = 1
         /\ Unreadable(fs, stack[i])
         /\ ~NamesRoot(fs, stack[i]))
        => (/\ i = Len(stack)
            /\ outcome \in {"running", "panic"}
            /\ Finished => outcome = "panic")

\* C8 witness: the panic on an unlistable directory met one level down.
C8_Witness ==
    /\ outcome = "panic" /\ Descents >= 1
    /\ NamesDir(fs, Top) /\ fs[DirOf(fs, Top)].kind = "nolist"

\* C9: a returned path names a directory with the markers, the directory
\* of the last call, and no call is made from a directory with the markers;
\* a start directory with the markers is returned without any descent.
C9_OutermostRoot ==
    /\ (run = 1 /\ outcome = "ok") =>
           /\ is_absolute(root)
           /\ Tail(Components(root)) \in DOMAIN fs
           /\ fs[Tail(Components(root))].kind \in DirKinds
           /\ HasMarkers(fs, Tail(Components(root)))
           /\ DirOf(fs, Top) = Tail(Components(root))
    /\ (run = 1 /\ Len(stack) = 2) => ~NamesRoot(fs, stack[1])
    /\ (run = 1 /\ NamesRoot(fs, start)) =>
           /\ Descents = 0
           /\ Finished => (outcome = "ok" /\ root = AbsPath(DirOf(fs, start)))

\* C9 witness: the start directory returned although its only subdirectory
\* has the markers too.
C9_Witness ==
    /\ run = 1 /\ outcome = "ok" /\ Descents = 0
    /\ Cardinality(SubdirEntries(fs, DirOf(fs, start))) = 1
    /\ \E c \in SubdirEntries(fs, DirOf(fs, start)) : HasMarkers(fs, Deref(fs, c))

\* The chain of only-subdirectories from d goes on for `fuel` levels
\* through listable directories without the markers, each subdirectory
\* with a UTF-8 name; with more levels than the tree has entries, it runs
\* round a loop of links.
RECURSIVE ChainGoesOn(_, _, _, _)
ChainGoesOn(f, ends, d, fuel) ==
    \/ fuel = 0
    \/ /\ f[d].kind = "dir"
       /\ ~MarkersFrom(f, ends, Reached(d, 0))
       /\ Cardinality(SubdirsFrom(f, ends, Reached(d, 0))) = 1
       /\ \A c \in SubdirsFrom(f, ends, Reached(d, 0)) :
             /\ to_str(c[Len(c)]).some
             /\ ChainGoesOn(f, ends, EndOf(f, ends, c), fuel - 1)

\* The start path names a directory from which the single-subdirectory
\* descent runs round a loop of links without markers.
StartsOnLoop ==
    /\ NamesDir(fs, start)
    /\ \E ends \in {LinkEnds(fs)} :
          ChainGoesOn(fs, ends, DirOf(fs, start), Cardinality(DOMAIN fs) + 1)

\* The descents allowed by the nesting depth below the start path.
WithinDepth ==
    Descents <= (IF NamesDir(fs, start) THEN Depth(fs, DirOf(fs, start)) ELSE 0)

\* C10 as stated: on a tree without a loop of links the search ends after
\* at most as many descents as the directories below the start path are
\* nested deep; on a loop of links without markers nothing stops it.
C10_TerminatesUnlessLoop ==
    /\ LoopFree(fs) => <>Finished
    /\ []((Descents > 0 /\ LoopFree(fs)) => WithinDepth)
    /\ []((Finished /\ run = 1) => ~StartsOnLoop)

\* C10 amended: the search always ends, with a root, an error or a panic.
\* On a tree without a loop of links it ends after at most as many descents
\* as the directories below the start path are nested deep.  On a loop of
\* links through listable directories without markers, each with a single
\* subdirectory of a UTF-8 name, it ends with the "cannot determine" error,
\* in a directory whose subdirectory its path no longer reaches.
C10_Terminates ==
    /\ <>Finished
    /\ []((Descents > 0 /\ LoopFree(fs)) => WithinDepth)
    /\ []((Finished /\ run = 1 /\ StartsOnLoop) =>
            /\ outcome = "err"
            /\ SubdirEntries(fs, DirOf(fs, Top)) # {}
            /\ \A c \in SubdirEntries(fs, DirOf(fs, Top)) :
                  ~is_dir(fs, push(Top, c[Len(c)])))

\* C10 witness: a search round a loop of links that ended with the error,
\* the subdirectory of the last call out of reach of its path.
C10_Witness ==
    /\ Finished /\ run = 1 /\ StartsOnLoop
    /\ outcome = "err" /\ Descents >= MAXSYMLINKS - 1
    /\ \E c \in SubdirEntries(fs, DirOf(fs, Top)) : ~is_dir(fs, push(Top, c[Len(c)]))

(***************************************************************************)
(* The Path Resolver on its own: build_manifest_path is called on every    *)
(* root and locator made of at most MaxLen tokens out of "a", "/" and ".". *)
(* The kind is never empty (a locator always has one).                     *)
(***************************************************************************)
Alphabet == {"a", "/", "."}
Strings == UNION {[1..n -> Alphabet] : n \in 0..MaxLen}
Roots == {<<"/", "r">>, <<"r", "/">>}

InitPath ==
    /\ loc \in [path : Roots, name : Strings, namespace : Strings,
                 kind : Strings \ {<<>>}, group : Strings]
    /\ manifestpath = <<>>
    /\ pc = "resolve"
    /\ fs = RootOnly /\ start = <<>> /\ stack = <<>> /\ depth = 0 /\ run = 1 /\ first = <<>>
    /\ root = <<>> /\ outcome = "running"
    /\ title = <<>> /\ version = "" /\ nodes = <<>>

BuildManifestPath ==
    /\ pc = "resolve"
    /\ manifestpath' =
          build_manifest_path(loc.path, loc.name, loc.namespace, loc.kind, loc.group)
    /\ pc' = "resolved"
    /\ UNCHANGED <<fs, start, stack, depth, run, first, root, outcome, title, version,
                   nodes, loc>>

NextPath == BuildManifestPath

SpecPath == InitPath /\ [][NextPath]_vars

\* The segments the claim lists after the root, for the locator called with.
ClaimedSegments ==
    (IF loc.namespace = <<>> THEN <<CLUSTER_SCOPED_RESOURCES>>
     ELSE <<NAMESPACES, loc.namespace>>)
    \o (IF loc.group = <<>> THEN <<>> ELSE <<loc.group>>)
    \o <<loc.kind>>
    \o (IF loc.name = <<>> THEN <<>> ELSE <<loc.name \o DOT_YAML>>)

\* A string that is one path segment: no separator in it, and not ".".
OneSegment(x) == x # DOT /\ \A i \in 1..Len(x) : x[i] # "/"

\* C1 as stated: for every root and locator the path returned is made of
\* the root's components followed by exactly the claimed segments.
C1_ExactSegments ==
    pc = "resolved" =>
        Components(manifestpath) = Components(loc.path) \o ClaimedSegments

\* C1 amended: the same, for every locator whose namespace, group, kind
\* and name are each empty or a single path segment.
C1_ExactSegmentsOfSegments ==
    (/\ pc = "resolved"
     /\ OneSegment(loc.namespace) /\ OneSegment(loc.group)
     /\ OneSegment(loc.kind) /\ OneSegment(loc.name))
    => Components(manifestpath) = Components(loc.path) \o ClaimedSegments

\* C1 witness: a namespaced, grouped, named locator resolved below a root
\* written with a trailing separator.
C1_Witness ==
    /\ pc = "resolved"
    /\ loc = [path |-> <<"r", "/">>, name |-> <<"a">>, namespace |-> <<"a">>,
              kind |-> <<"a">>, group |-> <<"a">>]
    /\ manifestpath = <<"r", "/", "namespaces", "/", "a", "/", "a", "/", "a", "/",
                        "a", ".", "yaml">>

(***************************************************************************)
(* The Manifest Loader and Node, collaborators outside this file.          *)
(* A file's content says whether it parses as YAML and what it holds at    *)
(* status -> desired -> version: nothing, an integer, or a string.         *)
(***************************************************************************)
Doc(type, text) == [yaml |-> TRUE, type |-> type, text |-> text]
NodeDoc == Doc("absent", "")

\* Manifest::from as Result: the document of a readable, well-formed file.
Manifest_from(f, p) ==
    CHOOSE m \in
        {IF r.ok /\ f[r.at].kind = "file" /\ f[r.at].content.yaml
         THEN [ok |-> TRUE, doc |-> f[r.at].content]
         ELSE [ok |-> FALSE, doc |-> Garbage] :
            r \in {Resolve(f, p)}} : TRUE

\* as_yaml()["status"]["desired"]["version"].as_str() as Option.
desired_version(doc) ==
    IF doc.type = "string" THEN [some |-> TRUE, str |-> doc.text]
    ELSE [some |-> FALSE, str |-> ""]

\* Node::from: the Node of a manifest, here the path it was loaded from.
Node_from(p) == p

(***************************************************************************)
(* get_cluster_version and get_nodes                                       *)
(***************************************************************************)
\* Takes whatever scalar the field holds for the version.
get_cluster_version_anyScalar(f, path) ==
    CHOOSE v \in
        {IF ~m.ok THEN UNKNOWN
         ELSE IF m.doc.type # "absent" THEN m.doc.text ELSE UNKNOWN :
            m \in {Manifest_from(f,
                      push(build_manifest_path(path, <<>>, <<>>, CLUSTERVERSIONS,
                                               CONFIG_OPENSHIFT_IO),
                           VERSION_YAML))}} : TRUE

get_cluster_version(f, path) ==
    CHOOSE v \in
        {IF ~m.ok THEN UNKNOWN
         ELSE IF desired_version(m.doc).some THEN desired_version(m.doc).str
         ELSE UNKNOWN :
            m \in {Manifest_from(f,
                      push(build_manifest_path(path, <<>>, <<>>, CLUSTERVERSIONS,
                                               CONFIG_OPENSHIFT_IO),
                           VERSION_YAML))}} : TRUE

\* Line 132: the directory of the node manifests.
nodes_path(path) == build_manifest_path(path, <<>>, <<>>, NODES, CORE)

\* Lines 133-139 panic when the directory cannot be listed (read_dir's
\* unwrap) and when some entry has no extension (extension's unwrap).
get_nodes_panics(f, path) ==
    \E l \in {read_dir(f, nodes_path(path))} :
        ~l.ok \/ \E e \in l.paths : ~extension(e).some

\* Lines 133-139: the entries with the extension "yaml".
yamlfiles(f, path) ==
    {e \in read_dir(f, nodes_path(path)).paths :
        extension(e).some /\ extension(e).ext = YAML}

\* The orders a directory listing can come in.
Orders(S) ==
    {o \in [1..Cardinality(S) -> S] : \A i, j \in 1..Cardinality(S) : o[i] = o[j] => i = j}

\* Lines 141-146: one Node per manifest that loads, in the listing's order.
RECURSIVE loaded_nodes(_, _, _)
loaded_nodes(f, files, i) ==
    IF i > Len(files) THEN <<>>
    ELSE (IF Manifest_from(f, files[i]).ok THEN <<Node_from(files[i])>> ELSE <<>>)
            \o loaded_nodes(f, files, i + 1)

(***************************************************************************)
(* MustGather::from, after the Root Finder.                                *)
(***************************************************************************)
\* Line 19: the title is the root's file name.
Title ==
    /\ pc = "found"
    /\ file_name(root).some
    /\ to_str(file_name(root).name).some
    /\ title' = to_str(file_name(root).name).str
    /\ pc' = "titled"
    /\ UNCHANGED <<fs, start, stack, depth, run, first, root, outcome, version, nodes,
                   loc, manifestpath>>

\* Line 19: file_name().unwrap() on a root without a file name, "/", and
\* to_str().unwrap() on a file name that is not UTF-8.
TitlePanic ==
    /\ pc = "found"
    /\ ~(file_name(root).some /\ to_str(file_name(root).name).some)
    /\ outcome' = "panic"
    /\ pc' = "stopped"
    /\ UNCHANGED <<fs, start, stack, depth, run, first, root, title, version, nodes,
                   loc, manifestpath>>

\* Line 20.
GetClusterVersion ==
    /\ pc = "titled"
    /\ version' = get_cluster_version(fs, root)
    /\ pc' = "versioned"
    /\ UNCHANGED <<fs, start, stack, depth, run, first, root, outcome, title, nodes,
                   loc, manifestpath>>

\* Lines 21-27: the nodes, and the summary returned.
GetNodes ==
    /\ pc = "versioned"
    /\ ~get_nodes_panics(fs, root)
    /\ \E files \in Orders(yamlfiles(fs, root)) :
          nodes' = loaded_nodes(fs, files, 1)
    /\ pc' = "returned"
    /\ UNCHANGED <<fs, start, stack, depth, run, first, root, outcome, title, version,
                   loc, manifestpath>>

\* Line 21: get_nodes panics.
GetNodesPanic ==
    /\ pc = "versioned"
    /\ get_nodes_panics(fs, root)
    /\ outcome' = "panic"
    /\ pc' = "stopped"
    /\ UNCHANGED <<fs, start, stack, depth, run, first, root, title, version, nodes,
                   loc, manifestpath>>

(***************************************************************************)
(* The archives MustGather::from is run on.  The archive directory is "/", *)
(* "/mg", or a directory whose name is not UTF-8 with the link "/mg" to    *)
(* it; it holds any of the markers; cluster-scoped-resources is a          *)
(* directory or a link to the directory "/kept"; below it the version      *)
(* manifest and the nodes collection are there or not, in every way the    *)
(* code distinguishes, the collection with at most MaxNodeFiles entries.   *)
(***************************************************************************)
MG == <<"mg">>
REAL == <<"kept">>
FAKE_VERSION == "X.Y.Z-fake-test"

Tree(pairs) ==
    [q \in {x[1] : x \in pairs} |-> (CHOOSE x \in pairs : x[1] = q)[2]]

\* The version manifest: its directories missing, the file missing, the
\* file with some content, or a link to such a file or to nothing.
VersionManifests(csr) ==
    LET dir == csr \o <<CONFIG_OPENSHIFT_IO, CLUSTERVERSIONS>>
        dirs == {<<csr \o <<CONFIG_OPENSHIFT_IO>>, Dir>>, <<dir, Dir>>}
    IN {{}, dirs}
       \cup {dirs \cup {<<Append(dir, VERSION_YAML), File(c)>>} :
                 c \in {Garbage, Doc("absent", ""), Doc("integer", "4"),
                        Doc("string", FAKE_VERSION)}}
       \cup {dirs \cup {<<Append(dir, VERSION_YAML), Link(<<"v">>)>>,
                        <<Append(dir, <<"v">>), File(Doc("string", FAKE_VERSION))>>},
             dirs \cup {<<Append(dir, VERSION_YAML), Link(<<"v">>)>>}}

NodeEntryPool ==
    {<< <<"n1", ".", "yaml">>, File(NodeDoc) >>,
     << <<"n1", ".", "yaml">>, File(Garbage) >>,
     << <<"n2", ".", "yaml">>, File(NodeDoc) >>,
     << <<"n2", ".", "yaml">>, File(Garbage) >>,
     << <<"d", ".", "yaml">>, Dir >>,
     << <<"l", ".", "yaml">>, Link(<<"n1", ".", "yaml">>) >>,
     << <<".", "yaml">>, File(NodeDoc) >>,
     << <<"notes", ".", "txt">>, File(Garbage) >>,
     << <<"README">>, File(Garbage) >>}

\* The nodes collection: its directories missing, a file in its place, a
\* directory that cannot be listed, a link to a directory, or a directory
\* with some entries.
NodeCollections(csr) ==
    LET dir == csr \o <<CORE, NODES>>
        core == <<csr \o <<CORE>>, Dir>>
        real == csr \o <<CORE, <<"real">>>>
    IN {{}, {core}, {core, <<dir, File(Garbage)>>}, {core, <<dir, NoList>>},
        {core, <<dir, Link(<<"real">>)>>, <<real, Dir>>,
         <<Append(real, <<"n1", ".", "yaml">>), File(NodeDoc)>>}}
       \cup {{core, <<dir, Dir>>} \cup {<<Append(dir, e[1]), e[2]>> : e \in es} :
                 es \in {x \in SUBSET NodeEntryPool :
                            /\ Cardinality(x) <= MaxNodeFiles
                            /\ \A a, b \in x : a[1] = b[1] => a = b}}

Archives ==
    UNION {
      LET csr == Append(at, CLUSTER_SCOPED_RESOURCES)
          top == {<< <<>>, Dir >>, <<at, Dir>>}
                   \cup (IF v THEN {<<Append(at, VERSION), File(Garbage)>>} ELSE {})
                   \cup (IF n THEN {<<Append(at, NAMESPACES), Dir>>} ELSE {})
                   \cup (IF at = <<BAD>> THEN {<< <<MG>>, Link(BAD) >>} ELSE {})
          kept == <<REAL>>
      IN {Tree(top)}
         \cup {Tree(top \cup {<<csr, Dir>>} \cup vm \cup nc) :
                  vm \in VersionManifests(csr), nc \in NodeCollections(csr)}
         \cup {Tree(top \cup {<<csr, Link(AbsPath(kept))>>, <<kept, Dir>>} \cup vm \cup nc) :
                  vm \in VersionManifests(kept), nc \in NodeCollections(kept)} :
      at \in {<<>>, <<MG>>, <<BAD>>}, v \in BOOLEAN, n \in BOOLEAN}

InitSummary ==
    /\ fs \in Archives
    /\ start \in {SEP, MG}
    /\ pc = "find"
    /\ stack = <<start>>
    /\ depth = 0
    /\ run = 1
    /\ first = <<>>
    /\ root = <<>>
    /\ outcome = "running"
    /\ Idle

NextSummary ==
    FindCall \/ Title \/ TitlePanic \/ GetClusterVersion \/ GetNodes \/ GetNodesPanic

SpecSummary == InitSummary /\ [][NextSummary]_vars

(***************************************************************************)
(* What the claims about the summary speak of, read off the tree itself.   *)
(***************************************************************************)
Done == pc \in {"stopped", "returned"}
RootFound == root # <<>>
RootDir == DirOf(fs, root)

\* The entry at <root>/cluster-scoped-resources/config.openshift.io/
\* clusterversions/version.yaml, links followed.
VersionManifest ==
    WalkNames(fs, LinkEnds(fs), Reached(RootDir, 0),
              <<CLUSTER_SCOPED_RESOURCES, CONFIG_OPENSHIFT_IO, CLUSTERVERSIONS,
                VERSION_YAML>>)

\* The string at status -> desired -> version of the version manifest, when
\* the file is there, is well-formed and holds a string there.
HasVersionString ==
    /\ VersionManifest.ok
    /\ fs[VersionManifest.at].kind = "file"
    /\ fs[VersionManifest.at].content.yaml
    /\ fs[VersionManifest.at].content.type = "string"

\* The entry at <root>/cluster-scoped-resources/core/nodes, links followed.
NodesDir ==
    WalkNames(fs, LinkEnds(fs), Reached(RootDir, 0),
              <<CLUSTER_SCOPED_RESOURCES, CORE, NODES>>)
NodesListable == NodesDir.ok /\ fs[NodesDir.at].kind = "dir"

\* A file name with the manifest extension: "yaml" after its last dot,
\* which is not its first character.
HasYamlExtension(n) == extension(n).some /\ extension(n).ext = YAML

\* An entry of the nodes directory that loads, links followed.
Loads(n) ==
    \E w \in {WalkStep(fs, LinkEnds(fs), NodesDir, n)} :
        w.ok /\ fs[w.at].kind = "file" /\ fs[w.at].content.yaml

\* The names in the nodes directory with the manifest extension that load.
LoadableYaml ==
    {n \in {c[Len(c)] : c \in Children(fs, NodesDir.at)} :
        HasYamlExtension(n) /\ Loads(n)}

\* The version has been asked for: the title is set and the step after it
\* has been taken.
VersionAsked == title # <<>> /\ pc # "titled"

\* C5 as stated: MustGather::from ends without a summary exactly when the
\* Root Finder fails; once the root is found a summary is returned whatever
\* lies below the root, with no nodes when the nodes directory is missing,
\* empty or unreadable.
C5_SummaryWheneverRootFound ==
    /\ Done => (RootFound <=> pc = "returned")
    /\ (Done /\ RootFound /\ ~NodesListable) => nodes = <<>>

\* C6: get_cluster_version never stops the run and yields the string at
\* status -> desired -> version of <root>/cluster-scoped-resources/
\* config.openshift.io/clusterversions/version.yaml when that file loads and
\* holds a string there, and exactly "Unknown" in every other case.
C6_VersionBestEffort ==
    VersionAsked =>
        /\ version # ""
        /\ version = IF HasVersionString THEN fs[VersionManifest.at].content.text
                      ELSE UNKNOWN

\* C6 witness: a version manifest that loads but holds an integer where the
\* version string belongs, and the summary returned with "Unknown".
C6_Witness ==
    /\ pc = "returned" /\ version = UNKNOWN
    /\ VersionManifest.ok
    /\ fs[VersionManifest.at].content.type = "integer"

\* C7 as stated: whatever the mix of entries in a listable nodes directory,
\* the scan ends with one Node per entry that ends in .yaml and loads, the
\* entry of that name in <root>/cluster-scoped-resources/core/nodes; the
\* other entries, those without any extension included, do not stop it.
C7_OneNodePerLoadableYaml ==
    (Done /\ VersionAsked /\ NodesListable) =>
        /\ pc = "returned"
        /\ Len(nodes) = Cardinality(LoadableYaml)
        /\ {Components(nodes[i]) : i \in 1..Len(nodes)} =
              {Components(root) \o <<CLUSTER_SCOPED_RESOURCES, CORE, NODES, n>> :
                  n \in LoadableYaml}

====
